---- MODULE Spec2Model ----
(***************************************************************************)
(* Observer pattern of src/observer.ts: YoutubeChannel keeps an array of   *)
(* Subscriber objects (this.subscriber); addSubscriber pushes onto it,     *)
(* removeSubscriber replaces it by a filtered copy, videoUpload maps over  *)
(* it calling update on every element.                                     *)
(*                                                                         *)
(* Arrays are heap objects with identity: push mutates the array in place, *)
(* filter allocates a new array, and Array.prototype.map iterates over the *)
(* array object it was called on, with the length read once at the call.   *)
(* A Subscriber is an interface, so an update callback may itself call     *)
(* addSubscriber and removeSubscriber of a channel while videoUpload runs; *)
(* the running videoUpload activation is part of the state.  videoUpload   *)
(* itself is called by the top-level script: a callback that publishes     *)
(* again is not modelled.                                                  *)
(***************************************************************************)
EXTENDS Integers, Sequences, FiniteSets, TLC

\* ---------------------------------------------------------------- bounds
MaxLen == 3          \* longest subscriber array explored

\* ------------------------------------------------------------ the objects
ChannelOrder == <<"YtChannel1", "YtChannel2">>
Subscribers == {"A", "B"}
Titles == {"ReactJs", "Angular"}
Null == "null"
NoCall == [op |-> "none", ch |-> "none", sub |-> Null, pre |-> <<>>]

\* one array per channel, the array of the running map, and a new one
ArrIds == 0 .. (Len(ChannelOrder) + 1)

VARIABLES
  heap,        \* the array objects: array id -> sequence of entries
  subscriber,  \* this.subscriber of every channel constructed: an array id
  stack,       \* the running videoUpload activation, if any, with what it
               \* has printed on the console
  err,         \* TRUE once an operation has thrown
  lastCall,    \* the most recent call of a channel operation
  script,      \* how far the calls made so far follow the demo script
  single,      \* the singleton class, its callers and its instances
  factory,     \* the calls of AnimalFactory.getAnimal and what they returned
  player,      \* the AudioPlayer, the call of play it runs and the console
  strategy,    \* the Strategy contexts, the pay calls and the payments made
  coffee,      \* the decorated coffee and the line last printed about it
  facade       \* the OrderFacade, the placeOrder call it runs and what was done

\* the state of the channels
obsVars == <<heap, subscriber, stack, err, lastCall>>

\* what the channel operations leave alone
others == <<script, single, factory, player, strategy, coffee, facade>>

\* what the singleton leaves alone
exceptSingle == <<obsVars, script, factory, player, strategy, coffee, facade>>

\* what the animal factory leaves alone
exceptFactory == <<obsVars, script, single, player, strategy, coffee, facade>>

\* what the audio player leaves alone
exceptPlayer == <<obsVars, script, single, factory, strategy, coffee, facade>>

\* what the payment strategies leave alone
exceptStrategy == <<obsVars, script, single, factory, player, coffee, facade>>

\* what the observer demo script leaves alone
exceptDemo == <<single, factory, player, strategy, coffee, facade>>

\* what the coffee decorators leave alone
exceptCoffee == <<obsVars, script, single, factory, player, strategy, facade>>

\* what the order facade leaves alone
exceptFacade == <<obsVars, script, single, factory, player, strategy, coffee>>

vars == <<heap, subscriber, stack, err, lastCall, others>>

\* ---------------------------------------------------------------- helpers
Range(s) == {s[i] : i \in 1 .. Len(s)}

Min(S) == CHOOSE x \in S : \A y \in S : x <= y

\* the references to arrays, in a fixed order: every channel's
\* this.subscriber, then the array of every running map
Refs(sub, st) ==
  LET chans == SelectSeq(ChannelOrder, LAMBDA c : c \in DOMAIN sub)
  IN [i \in 1 .. (Len(chans) + Len(st)) |->
        IF i <= Len(chans) THEN sub[chans[i]] ELSE st[i - Len(chans)].O]

Referenced(sub, st) == Range(Refs(sub, st))

\* an array id nothing refers to
FreshId(sub, st) == Min(ArrIds \ Referenced(sub, st))

\* where a compacting collector moves array a: the live arrays are numbered
\* in the order the references reach them
Moved(a, rs) ==
  LET first(b) == Min({i \in DOMAIN rs : rs[i] = b})
  IN Cardinality({first(b) : b \in {x \in Range(rs) : first(x) < first(a)}})

\* garbage collection: arrays nothing refers to are gone, the others are
\* renumbered and every reference follows its array
CollectHeap(h, sub, st) ==
  LET rs == Refs(sub, st)
  IN [n \in {Moved(a, rs) : a \in Range(rs)} |->
        h[CHOOSE a \in Range(rs) : Moved(a, rs) = n]]

CollectSubscriber(sub, st) ==
  [c \in DOMAIN sub |-> Moved(sub[c], Refs(sub, st))]

CollectStack(sub, st) ==
  [i \in 1 .. Len(st) |-> [st[i] EXCEPT !.O = Moved(st[i].O, Refs(sub, st))]]

\* the entries of channel c's current array
Subs(c) == heap[subscriber[c]]

\* who may call a channel operation now: the top-level script when nothing
\* runs, or the update callback the innermost videoUpload is waiting for
CanCall ==
  /\ ~err
  /\ IF stack = <<>> THEN TRUE ELSE stack[Len(stack)].pc = "update"

\* ------------------------------------------------------------ the singleton
\* who calls getInstance: the call sites of the script, or threads
Callers == {"instance1", "instance2", "instance3"}
NoCaller == "nobody"
\* the value of the instance field before any object is assigned to it
NoObject == [by |-> NoCaller, nr |-> 0]

\* -------------------------------------------------------------- the factory
MaxStr == 3          \* longest argument string explored

\* the characters of the argument strings; a string is a sequence of them
Chars == {"d", "D", "o", "O", "g", "G", "c", "C", "a", "A", "t", "T"}

Strings == UNION {[1 .. n -> Chars] : n \in 0 .. MaxStr}

NoAnimal == [class |-> "null", id |-> 0]

\* --------------------------------------------------------- the audio player
MaxPlays == 2        \* number of play calls explored

\* the audioType arguments: those of the demo and some others
AudioTypes == {"mp3", "mp4", "vlc", "avi", "MP3", "Vlc", "wav", ""}
FileNames == {"song.mp3", "video.mp4", "movie.vlc", "weird.avi"}
NoPlayer == "none"

\* ---------------------------------------------------- the payment strategies
MaxContexts == 2     \* number of Strategy contexts constructed
MaxPays == 2         \* number of pay calls explored

\* the classes that implement PaymentStrategy, and the amounts of the demo
Payments == {"CreditCard", "Upi", "PayPal"}
Amounts == {100, 200, 300}

\* ------------------------------------------------------ the coffee decorators
MaxWraps == 5        \* number of decorators around the SimpleCoffee

Decorators == {"MilkDecorator", "SugarDecorator"}
NoLine == [description |-> <<>>, cost |-> 0]

\* ---------------------------------------------------------- the order facade
MaxOrders == 2       \* number of placeOrder calls explored

\* the arguments of placeOrder: those of the script and another of each
ProductIds == {"Product123", "Product456"}
UserIds == {"UserABC", "UserXYZ"}

\* --------------------------------------------------------------- the state
\* new YoutubeChannel("codeWithMe"): private subscriber: Subscriber[] = []
Init ==
  /\ subscriber = [c \in {"YtChannel1"} |-> 0]
  /\ heap = [a \in {0} |-> <<>>]
  /\ stack = <<>>
  /\ err = FALSE
  /\ lastCall = NoCall
  /\ script = [on |-> TRUE, at |-> 0]
  /\ single = [instance |-> NoObject, created |-> {}, lock |-> NoCaller,
               pc |-> [t \in Callers |-> "idle"],
               obj |-> [t \in Callers |-> NoObject],
               got |-> [t \in Callers |-> {}], said |-> "nothing"]
  /\ factory = [pc |-> "start", args |-> <<>>, done |-> <<>>, made |-> {}]
  /\ player = [pc |-> "idle", type |-> "", file |-> "", advanced |-> NoPlayer,
               console |-> <<>>, before |-> 0, plays |-> 0, error |-> ""]
  /\ strategy = [objects |-> {}, news |-> <<>>, contexts |-> <<>>,
                 calls |-> <<>>, paid |-> <<>>, pc |-> "idle"]
  /\ coffee = [wraps |-> <<>>, line |-> NoLine]
  /\ facade = [pc |-> "idle", product |-> "", user |-> "", log |-> <<>>,
               before |-> 0, orders |-> 0]

\* a push that refuses an object the array already holds
PushUnique(arr, s) == IF s \in Range(arr) THEN arr ELSE Append(arr, s)

\* addSubscriber(subscriber): this.subscriber.push(subscriber)
Push(arr, s) == Append(arr, s)

AddSubscriber(c, s) ==
  /\ CanCall
  /\ Len(Subs(c)) < MaxLen
  /\ heap' = [heap EXCEPT ![subscriber[c]] = Push(@, s)]
  /\ lastCall' = [op |-> "addSubscriber", ch |-> c, sub |-> s, pre |-> Subs(c)]
  /\ UNCHANGED <<subscriber, stack, err>>

\* a removal of the first match only
RECURSIVE FilterFirst(_, _)
FilterFirst(arr, s) ==
  IF arr = <<>> THEN <<>>
  ELSE IF Head(arr) = s THEN Tail(arr)
  ELSE <<Head(arr)>> \o FilterFirst(Tail(arr), s)

\* a removal by splice(indexOf(s), 1): index -1 takes the last entry away
FilterSplice(arr, s) ==
  IF s \in Range(arr) THEN FilterFirst(arr, s)
  ELSE SubSeq(arr, 1, Len(arr) - 1)

\* a removal that blanks the matching entries and keeps their places
FilterNull(arr, s) ==
  [i \in 1 .. Len(arr) |-> IF arr[i] = s THEN Null ELSE arr[i]]

\* a removal that collects the kept entries at the front of the new array
RECURSIVE FilterUnshift(_, _)
FilterUnshift(arr, s) ==
  IF arr = <<>> THEN <<>>
  ELSE IF Head(arr) # s THEN FilterUnshift(Tail(arr), s) \o <<Head(arr)>>
  ELSE FilterUnshift(Tail(arr), s)

\* a filter whose test is turned round: it keeps the matching entries
FilterEqual(arr, s) == SelectSeq(arr, LAMBDA x : x = s)

\* Array.prototype.filter((sub) => sub !== subscriber): a new array holding,
\* in order, the entries that are not the given object
RECURSIVE Filter(_, _)
Filter(arr, s) ==
  IF arr = <<>> THEN <<>>
  ELSE IF Head(arr) # s THEN <<Head(arr)>> \o Filter(Tail(arr), s)
  ELSE Filter(Tail(arr), s)

\* a removal that filters and drops the result
RemoveSubscriberDiscard(c, s) ==
  /\ CanCall
  /\ lastCall' = [op |-> "removeSubscriber", ch |-> c, sub |-> s, pre |-> Subs(c)]
  /\ UNCHANGED <<heap, subscriber, stack, err>>

\* removeSubscriber(subscriber): this.subscriber = this.subscriber.filter(...)
RemoveSubscriber(c, s) ==
  /\ CanCall
  /\ LET new == FreshId(subscriber, stack)
         sub2 == [subscriber EXCEPT ![c] = new]
         heap2 == [a \in DOMAIN heap \cup {new} |->
                     IF a = new THEN Filter(Subs(c), s) ELSE heap[a]]
     IN /\ subscriber' = CollectSubscriber(sub2, stack)
        /\ heap' = CollectHeap(heap2, sub2, stack)
        /\ stack' = CollectStack(sub2, stack)
  /\ lastCall' = [op |-> "removeSubscriber", ch |-> c, sub |-> s, pre |-> Subs(c)]
  /\ err' = err

\* the name given to the constructor of every channel
ChannelName ==
  [c \in Range(ChannelOrder) |->
     IF c = "YtChannel1" THEN "codeWithMe" ELSE "Adarsh Jha [ NIT Kurukshetra ]"]

\* the line videoUpload prints: `${this.name} uploaded: "${title}"`
Uploaded(c, t) == [who |-> ChannelName[c], what |-> "uploaded", title |-> t]

\* a line that repeats the name where the title belongs
NotifiedName(s, t) == [who |-> s, what |-> "got notified", title |-> s]

\* the line UserSubscriber.update prints:
\* `${this.name} got notified: New video "${videoTitle}" uploaded!`
\* (a UserSubscriber object is written as its name)
Notified(s, t) == [who |-> s, what |-> "got notified", title |-> t]

\* a videoUpload that returns at once, silently, when nobody subscribes
CallOutputQuiet(c, t) == IF Subs(c) = <<>> THEN <<>> ELSE <<Uploaded(c, t)>>

\* what videoUpload has printed when it calls map
CallOutput(c, t) == <<Uploaded(c, t)>>

\* a loop that stops one entry early
MapLengthShort(a) == IF Len(heap[a]) > 0 THEN Len(heap[a]) - 1 ELSE 0

\* the length map reads from the array object when it is called
MapLength(a) == Len(heap[a])

\* videoUpload(title): console.log(...); this.subscriber.map(...) is called.
\* map reads the array object and its length once, here.
VideoUploadCall(c, t) ==
  /\ ~err
  /\ stack = <<>>
  /\ stack' = Append(stack,
       [ch |-> c, title |-> t, O |-> subscriber[c],
        len |-> MapLength(subscriber[c]), k |-> 0, pc |-> "map",
        notified |-> <<>>, start |-> Subs(c), after |-> lastCall,
        gone |-> FALSE, out |-> CallOutput(c, t)])
  /\ lastCall' = [op |-> "videoUpload", ch |-> c, sub |-> Null, pre |-> Subs(c)]
  /\ UNCHANGED <<heap, subscriber, err>>

\* a loop that reads the length of the array anew at every iteration
MapBoundLive(f) == Len(heap[f.O])

\* the index at which the running map stops
MapBound(f) == f.len

\* does index k of array object a exist (map's HasProperty test)
Present(a, k) == k < Len(heap[a])

\* an iteration from the last entry to the first
EntryReverse(a, k) == heap[a][Len(heap[a]) - k]

\* an iteration whose index is one too far: the last read finds nothing
EntryNext(a, k) == IF k + 2 <= Len(heap[a]) THEN heap[a][k + 2] ELSE Null

\* the entry at index k of array object a (indices start at 0)
Entry(a, k) == heap[a][k + 1]

\* one iteration of map: if index k of the array exists, call
\* subscriber.update(title) on the entry, which prints its line. Calling a method of null throws a
\* TypeError nothing catches: the activation is abandoned.
MapVisit ==
  /\ ~err
  /\ stack # <<>>
  /\ LET top == stack[Len(stack)]
     IN /\ top.pc = "map"
        /\ top.k < MapBound(top)
        /\ IF ~Present(top.O, top.k)
           THEN /\ stack' = [stack EXCEPT ![Len(stack)].k = @ + 1]
                /\ UNCHANGED <<heap, subscriber, err>>
           ELSE IF Entry(top.O, top.k) = Null
           THEN /\ err' = TRUE
                /\ stack' = <<>>
                /\ subscriber' = CollectSubscriber(subscriber, <<>>)
                /\ heap' = CollectHeap(heap, subscriber, <<>>)
           ELSE /\ stack' = [stack EXCEPT
                     ![Len(stack)].pc = "update",
                     ![Len(stack)].notified = Append(@, Entry(top.O, top.k)),
                     ![Len(stack)].out =
                        Append(@, Notified(Entry(top.O, top.k), top.title)),
                     ![Len(stack)].gone =
                        Entry(top.O, top.k) \notin Range(Subs(top.ch))]
                /\ UNCHANGED <<heap, subscriber, err>>
  /\ UNCHANGED lastCall

\* subscriber.update(title) returns: map goes on with the next index
UpdateReturn ==
  /\ ~err
  /\ stack # <<>>
  /\ stack[Len(stack)].pc = "update"
  /\ stack' = [stack EXCEPT ![Len(stack)].pc = "map", ![Len(stack)].k = @ + 1]
  /\ UNCHANGED <<heap, subscriber, err, lastCall>>

\* an iteration that may stop after its first entry
FinishedEarly(f) == f.k >= 1 \/ f.k >= f.len

\* map has gone through every index below its bound
Finished(f) == f.k >= MapBound(f)

\* map is through: videoUpload returns
VideoUploadReturn ==
  /\ ~err
  /\ stack # <<>>
  /\ stack[Len(stack)].pc = "map"
  /\ Finished(stack[Len(stack)])
  /\ LET st == SubSeq(stack, 1, Len(stack) - 1)
     IN /\ stack' = CollectStack(subscriber, st)
        /\ subscriber' = CollectSubscriber(subscriber, st)
        /\ heap' = CollectHeap(heap, subscriber, st)
  /\ UNCHANGED <<err, lastCall>>

Next ==
  \/ \E c \in DOMAIN subscriber, s \in Subscribers :
       AddSubscriber(c, s) /\ UNCHANGED others
  \/ \E c \in DOMAIN subscriber, s \in Subscribers :
       RemoveSubscriber(c, s) /\ UNCHANGED others
  \/ \E c \in DOMAIN subscriber, t \in Titles :
       VideoUploadCall(c, t) /\ UNCHANGED others
  \/ MapVisit /\ UNCHANGED others
  \/ UpdateReturn /\ UNCHANGED others
  \/ VideoUploadReturn /\ UNCHANGED others

Spec == Init /\ [][Next]_vars

\* ---------------------------------------------------------- the demo script
\* the calls the script makes on YtChannel1, in order
DemoScript ==
  << [op |-> "addSubscriber", ch |-> "YtChannel1", arg |-> "A"],
     [op |-> "addSubscriber", ch |-> "YtChannel1", arg |-> "B"],
     [op |-> "addSubscriber", ch |-> "YtChannel1", arg |-> "C"],
     [op |-> "videoUpload", ch |-> "YtChannel1", arg |-> "ReactJs"],
     [op |-> "removeSubscriber", ch |-> "YtChannel1", arg |-> "B"],
     [op |-> "videoUpload", ch |-> "YtChannel1", arg |-> "Angular"] >>

\* subscriber1, subscriber2, subscriber3
DemoSubscribers == {"A", "B", "C"}

\* the script position after one more call: the next call of the script takes
\* it one further, any other call takes the run off the script
Follow(sc, call) ==
  IF sc.on /\ sc.at < Len(DemoScript) /\ DemoScript[sc.at + 1] = call
  THEN [on |-> TRUE, at |-> sc.at + 1]
  ELSE [on |-> FALSE, at |-> 0]

\* the top-level script calls the channel; the subscribers are UserSubscriber
\* objects, whose update calls nothing
DemoAdd(c, s) ==
  /\ stack = <<>>
  /\ AddSubscriber(c, s)
  /\ script' = Follow(script, [op |-> "addSubscriber", ch |-> c, arg |-> s])

DemoRemove(c, s) ==
  /\ stack = <<>>
  /\ RemoveSubscriber(c, s)
  /\ script' = Follow(script, [op |-> "removeSubscriber", ch |-> c, arg |-> s])

DemoUpload(c, t) ==
  /\ VideoUploadCall(c, t)
  /\ script' = Follow(script, [op |-> "videoUpload", ch |-> c, arg |-> t])

DemoNext ==
  \/ \E c \in DOMAIN subscriber, s \in DemoSubscribers :
       DemoAdd(c, s) /\ UNCHANGED exceptDemo
  \/ \E c \in DOMAIN subscriber, s \in DemoSubscribers :
       DemoRemove(c, s) /\ UNCHANGED exceptDemo
  \/ \E c \in DOMAIN subscriber, t \in Titles :
       DemoUpload(c, t) /\ UNCHANGED exceptDemo
  \/ MapVisit /\ UNCHANGED others
  \/ UpdateReturn /\ UNCHANGED others
  \/ VideoUploadReturn /\ UNCHANGED others

\* every script of calls with UserSubscriber objects, the demo script among
\* them
SpecDemo == Init /\ [][DemoNext]_vars

\* ------------------------------------------------------------- two channels
\* a subscriber field that all channels share
FieldArrayShared(sub, st) == sub["YtChannel1"]

\* the array a new channel's field initializer (subscriber = []) makes
FieldArray(sub, st) == FreshId(sub, st)

\* const YtChannel2 = new YoutubeChannel(name): the second channel of the
\* script, with a subscriber array of its own
NewChannel(c) ==
  /\ stack = <<>>
  /\ ~err
  /\ c \notin DOMAIN subscriber
  /\ LET new == FieldArray(subscriber, stack)
         sub2 == [d \in DOMAIN subscriber \cup {c} |->
                    IF d = c THEN new ELSE subscriber[d]]
         heap2 == [a \in DOMAIN heap \cup {new} |->
                     IF a \in DOMAIN heap THEN heap[a] ELSE <<>>]
     IN /\ subscriber' = CollectSubscriber(sub2, stack)
        /\ heap' = CollectHeap(heap2, sub2, stack)
  /\ UNCHANGED <<stack, err, lastCall>>

ChannelsNext ==
  \/ NewChannel("YtChannel2") /\ UNCHANGED others
  \/ \E c \in DOMAIN subscriber, s \in Subscribers :
       DemoAdd(c, s) /\ UNCHANGED exceptDemo
  \/ \E c \in DOMAIN subscriber, s \in Subscribers :
       DemoRemove(c, s) /\ UNCHANGED exceptDemo
  \/ \E c \in DOMAIN subscriber, t \in Titles :
       DemoUpload(c, t) /\ UNCHANGED exceptDemo
  \/ MapVisit /\ UNCHANGED others
  \/ UpdateReturn /\ UNCHANGED others
  \/ VideoUploadReturn /\ UNCHANGED others

\* every script of calls on the two channels of the script, with UserSubscriber
\* objects, some registered with both channels
SpecChannels == Init /\ [][ChannelsNext]_vars

\* ------------------------------------------------------------ the singleton
\* getInstance, statement by statement. An object is written as the caller
\* whose call constructed it and the number of objects constructed before it.

\* a test that always finds the instance missing
MissingAlways(v) == TRUE

\* if (!SingletonClass.instance), if (instance == null)
Missing(v) == v = NoObject

\* a caller calls getInstance
Enter(t) ==
  /\ single.pc[t] = "idle"
  /\ single' = [single EXCEPT !.pc[t] = "check"]

\* the test of the instance field
Check(t) ==
  /\ single.pc[t] = "check"
  /\ single' = [single EXCEPT
       !.pc[t] = IF Missing(single.instance) THEN "new" ELSE "return"]

\* new SingletonClass()
Construct(t) ==
  /\ single.pc[t] = "new"
  /\ LET o == [by |-> t, nr |-> Cardinality(single.created)]
     IN single' = [single EXCEPT !.pc[t] = "assign", !.obj[t] = o,
                                 !.created = @ \cup {o}]

\* SingletonClass.instance = the new object
Assign(t) ==
  /\ single.pc[t] = "assign"
  /\ single' = [single EXCEPT !.pc[t] = "return", !.obj[t] = NoObject,
                              !.instance = single.obj[t]]

\* return SingletonClass.instance
Leave(t) ==
  /\ single.pc[t] = "return"
  /\ single' = [single EXCEPT !.pc[t] = "idle",
                              !.got[t] = @ \cup {single.instance}]

\* the script of part_002: JavaScript runs every call to its end before the
\* next call begins
ScriptEnter(t) ==
  /\ \A u \in Callers : single.pc[u] = "idle"
  /\ Enter(t)

\* if (instance1 === instance2 && instance2 === instance3 && ...): the
\* script compares what the calls have returned and prints the outcome
Compare ==
  /\ \A u \in Callers : single.pc[u] = "idle" /\ single.got[u] # {}
  /\ single' = [single EXCEPT !.said =
       IF \A t, u \in Callers :
            \A x \in single.got[t], y \in single.got[u] : x = y
       THEN "All instance are same" ELSE "All instance are not same"]

SingletonNext ==
  \/ \E t \in Callers : ScriptEnter(t) /\ UNCHANGED exceptSingle
  \/ Compare /\ UNCHANGED exceptSingle
  \/ \E t \in Callers : Check(t) /\ UNCHANGED exceptSingle
  \/ \E t \in Callers : Construct(t) /\ UNCHANGED exceptSingle
  \/ \E t \in Callers : Assign(t) /\ UNCHANGED exceptSingle
  \/ \E t \in Callers : Leave(t) /\ UNCHANGED exceptSingle

SpecSingleton == Init /\ [][SingletonNext]_vars

\* the basic (lazy) getInstance of the README called by threads: the
\* statements of the calls interleave
LazyNext ==
  \/ \E t \in Callers : Enter(t) /\ UNCHANGED exceptSingle
  \/ \E t \in Callers : Check(t) /\ UNCHANGED exceptSingle
  \/ \E t \in Callers : Construct(t) /\ UNCHANGED exceptSingle
  \/ \E t \in Callers : Assign(t) /\ UNCHANGED exceptSingle
  \/ \E t \in Callers : Leave(t) /\ UNCHANGED exceptSingle

SpecLazy == Init /\ [][LazyNext]_vars

\* a monitor that lets everybody in
FreeAlways(l) == TRUE

\* is the monitor of the class free
Free(l) == l = NoCaller

\* public static synchronized Singleton getInstance(): a thread that calls
\* waits for the monitor of the class, enters it before the body and leaves
\* it with the return
SyncCall(t) ==
  /\ single.pc[t] = "idle"
  /\ single' = [single EXCEPT !.pc[t] = "wait"]

SyncEnter(t) ==
  /\ single.pc[t] = "wait"
  /\ Free(single.lock)
  /\ single' = [single EXCEPT !.pc[t] = "check", !.lock = t]

SyncLeave(t) ==
  /\ single.pc[t] = "return"
  /\ single' = [single EXCEPT !.pc[t] = "idle", !.lock = NoCaller,
                              !.got[t] = @ \cup {single.instance}]

SyncNext ==
  \/ \E t \in Callers : SyncCall(t) /\ UNCHANGED exceptSingle
  \/ \E t \in Callers : SyncEnter(t) /\ UNCHANGED exceptSingle
  \/ \E t \in Callers : Check(t) /\ UNCHANGED exceptSingle
  \/ \E t \in Callers : Construct(t) /\ UNCHANGED exceptSingle
  \/ \E t \in Callers : Assign(t) /\ UNCHANGED exceptSingle
  \/ \E t \in Callers : SyncLeave(t) /\ UNCHANGED exceptSingle

SpecSync == Init /\ [][SyncNext]_vars

\* -------------------------------------------------------------- the factory
\* String.prototype.toLowerCase on one character
LowerChar(ch) ==
  CASE ch = "D" -> "d" [] ch = "O" -> "o" [] ch = "G" -> "g"
    [] ch = "C" -> "c" [] ch = "A" -> "a" [] ch = "T" -> "t"
    [] OTHER -> ch

\* a comparison that leaves the argument as it is
LowerNone(str) == str

\* type.toLowerCase()
Lower(str) == [i \in 1 .. Len(str) |-> LowerChar(str[i])]

\* getAnimal(type): what it constructs, made being the objects constructed
\* so far; an object is written as its class and a number of its own
GetAnimal(type, made) ==
  IF Lower(type) = <<"d", "o", "g">>
  THEN [class |-> "Dog", id |-> Cardinality(made) + 1]
  ELSE IF Lower(type) = <<"c", "a", "t">>
  THEN [class |-> "Cat", id |-> Cardinality(made) + 1]
  ELSE NoAnimal

\* the script: a call with any string, then a call with the same string or
\* with one of the arguments of the demo, "Dog" and "Cat"
FactoryScript(a, b) ==
  /\ factory.pc = "start"
  /\ factory' = [factory EXCEPT !.pc = "calls", !.args = <<a, b>>]

\* const animal = AnimalFactory.getAnimal(type)
FactoryCall ==
  /\ factory.pc = "calls"
  /\ factory.args # <<>>
  /\ LET type == Head(factory.args)
         r == GetAnimal(type, factory.made)
     IN factory' = [factory EXCEPT
          !.args = Tail(@),
          !.done = Append(@, [arg |-> type, result |-> r]),
          !.made = IF r = NoAnimal THEN @ ELSE @ \cup {r}]

FactoryNext ==
  \/ /\ factory.pc = "start"
     /\ \E a \in Strings :
          \E b \in {a, <<"D", "o", "g">>, <<"C", "a", "t">>} :
            FactoryScript(a, b) /\ UNCHANGED exceptFactory
  \/ FactoryCall /\ UNCHANGED exceptFactory

SpecFactory == Init /\ [][FactoryNext]_vars

\* --------------------------------------------------------- the audio player
\* console.log(`Playing ${type} file: ${fileName}`)
Playing(type, file) == [text |-> "Playing", type |-> type, file |-> file]

\* console.log("Invalid media format. Only mp3, mp4, and vlc are supported.")
InvalidFormat ==
  [text |-> "Invalid media format. Only mp3, mp4, and vlc are supported.",
   type |-> "", file |-> ""]

\* player.play(audioType, fileName) is called
PlayCall(type, file) ==
  /\ player.pc = "idle"
  /\ player.plays < MaxPlays
  /\ player' = [player EXCEPT !.pc = "play", !.type = type, !.file = file,
                              !.advanced = NoPlayer,
                              !.before = Len(player.console),
                              !.plays = @ + 1]

\* a play without the last branch: an adapter for every type but "mp3"
PlayBranchAll ==
  /\ player.pc = "play"
  /\ player' =
       IF player.type = "mp3"
       THEN [player EXCEPT !.pc = "done",
               !.console = Append(@, Playing("mp3", player.file))]
       ELSE [player EXCEPT !.pc = "new"]

\* AudioPlayer.play: the three branches
PlayBranch ==
  /\ player.pc = "play"
  /\ player' =
       IF player.type = "mp3"
       THEN [player EXCEPT !.pc = "done",
               !.console = Append(@, Playing("mp3", player.file))]
       ELSE IF player.type = "vlc" \/ player.type = "mp4"
       THEN [player EXCEPT !.pc = "new"]
       ELSE [player EXCEPT !.pc = "done",
               !.console = Append(@, InvalidFormat)]

\* a constructor whose last branch makes an Mp4Player instead of throwing
AdvancedPlayerDefault(type) ==
  IF type = "vlc" THEN "VlcPlayer" ELSE "Mp4Player"

\* a constructor that takes the other player for each format
AdvancedPlayerSwapped(type) ==
  IF type = "vlc" THEN "Mp4Player"
  ELSE IF type = "mp4" THEN "VlcPlayer"
  ELSE NoPlayer

\* the advanced player the MediaAdapter constructor makes for a format, none
\* for a format it does not support
AdvancedPlayer(type) ==
  IF type = "vlc" THEN "VlcPlayer"
  ELSE IF type = "mp4" THEN "Mp4Player"
  ELSE NoPlayer

\* new MediaAdapter(audioType): throws for a format it does not support
AdapterNew ==
  /\ player.pc = "new"
  /\ player' =
       IF AdvancedPlayer(player.type) = NoPlayer
       THEN [player EXCEPT !.pc = "thrown", !.error = "Unsupported format"]
       ELSE [player EXCEPT !.pc = "adapter",
               !.advanced = AdvancedPlayer(player.type)]

\* what playVlc and playMp4 of an advanced player print
PlayVlc(adv, file) ==
  IF adv = "VlcPlayer" THEN <<Playing("vlc", file)>> ELSE <<>>

PlayMp4(adv, file) ==
  IF adv = "Mp4Player" THEN <<Playing("mp4", file)>> ELSE <<>>

\* MediaAdapter.play(audioType, fileName) on the adapter just constructed
MediaAdapterPlay(type, file) ==
  /\ player.pc = "adapter"
  /\ player' = [player EXCEPT !.pc = "done", !.console =
       IF type = "vlc" THEN @ \o PlayVlc(player.advanced, file)
       ELSE IF type = "mp4" THEN @ \o PlayMp4(player.advanced, file)
       ELSE @]

\* adapter.play(audioType, fileName) in AudioPlayer.play: the arguments are
\* those of play
AdapterPlay == MediaAdapterPlay(player.type, player.file)

\* play returns
PlayReturn ==
  /\ player.pc = "done"
  /\ player' = [player EXCEPT !.pc = "idle"]

PlayerNext ==
  \/ \E type \in AudioTypes, file \in FileNames :
       PlayCall(type, file) /\ UNCHANGED exceptPlayer
  \/ PlayBranch /\ UNCHANGED exceptPlayer
  \/ AdapterNew /\ UNCHANGED exceptPlayer
  \/ AdapterPlay /\ UNCHANGED exceptPlayer
  \/ PlayReturn /\ UNCHANGED exceptPlayer

SpecPlayer == Init /\ [][PlayerNext]_vars

\* a script calls new MediaAdapter(audioType) itself
NewAdapter(type) ==
  /\ player.pc = "idle"
  /\ player.plays < MaxPlays
  /\ player' = [player EXCEPT !.pc = "new", !.type = type, !.file = "",
                              !.advanced = NoPlayer,
                              !.before = Len(player.console),
                              !.plays = @ + 1]

\* the script is through with the adapter
AdapterDone ==
  /\ player.pc = "done"
  /\ player' = [player EXCEPT !.pc = "idle"]

\* scripts that construct adapters and play with them; a constructor that
\* throws ends the script
AdapterNext ==
  \/ \E type \in AudioTypes : NewAdapter(type) /\ UNCHANGED exceptPlayer
  \/ AdapterNew /\ UNCHANGED exceptPlayer
  \/ \E type \in AudioTypes, file \in FileNames :
       MediaAdapterPlay(type, file) /\ UNCHANGED exceptPlayer
  \/ AdapterDone /\ UNCHANGED exceptPlayer

SpecAdapter == Init /\ [][AdapterNext]_vars

\* ---------------------------------------------------- the payment strategies
\* new CreditCard(), new Upi(), new PayPal(): a payment object of its own
NewPayment(class) ==
  [class |-> class, id |-> Cardinality(strategy.objects) + 1]

\* new Strategy(instanct): the constructor stores the object it is given.
\* news is the history of the constructor's arguments.
NewStrategy(p) ==
  /\ strategy.pc = "idle"
  /\ Len(strategy.contexts) < MaxContexts
  /\ strategy' = [strategy EXCEPT !.objects = @ \cup {p},
                                  !.news = Append(@, p),
                                  !.contexts = Append(@, [instanct |-> p])]

\* context.pay(amount) is called; calls is the history of these calls
StrategyPay(i, amount) ==
  /\ strategy.pc = "idle"
  /\ Len(strategy.calls) < MaxPays
  /\ i \in DOMAIN strategy.contexts
  /\ strategy' = [strategy EXCEPT !.pc = "pay",
                                  !.calls = Append(@, [ctx |-> i,
                                                       amount |-> amount])]

\* a context that pays with the strategy of the first context
InstanctShared(i) == strategy.contexts[1].instanct

\* this.instanct of context i
Instanct(i) == strategy.contexts[i].instanct

\* this.instanct.pay(amount): the payment object prints its line; paid is
\* the history of pay invocations on payment objects
PaymentPay ==
  /\ strategy.pc = "pay"
  /\ LET call == strategy.calls[Len(strategy.calls)]
     IN strategy' = [strategy EXCEPT !.pc = "return",
          !.paid = Append(@, [on |-> Instanct(call.ctx),
                              amount |-> call.amount])]

\* Strategy.pay returns
StrategyReturn ==
  /\ strategy.pc = "return"
  /\ strategy' = [strategy EXCEPT !.pc = "idle"]

StrategyNext ==
  \/ \E class \in Payments :
       NewStrategy(NewPayment(class)) /\ UNCHANGED exceptStrategy
  \/ \E p \in strategy.objects : NewStrategy(p) /\ UNCHANGED exceptStrategy
  \/ \E i \in 1 .. MaxContexts, amount \in Amounts :
       StrategyPay(i, amount) /\ UNCHANGED exceptStrategy
  \/ PaymentPay /\ UNCHANGED exceptStrategy
  \/ StrategyReturn /\ UNCHANGED exceptStrategy

SpecStrategy == Init /\ [][StrategyNext]_vars

\* ------------------------------------------------------ the coffee decorators
\* coffee.wraps lists the decorators around the SimpleCoffee, the innermost
\* first; an empty list is the SimpleCoffee itself.

\* SimpleCoffee.cost and SimpleCoffee.description
SimpleCost == 50

SimpleDescription == <<"Simple coffee">>

\* CoffeeDecorator.cost and description hand on what the wrapped coffee returns
DecoratorCost(inner) == inner

DecoratorDescription(inner) == inner

\* MilkDecorator.cost and SugarDecorator.cost: super.cost() and the extra
MilkCost(inner) == DecoratorCost(inner) + 10

SugarCost(inner) == DecoratorCost(inner) + 5

MilkDescription(inner) == DecoratorDescription(inner) \o <<", Milk">>

SugarDescription(inner) == DecoratorDescription(inner) \o <<", Sugar">>

RECURSIVE Cost(_)
\* coffee.cost() of the coffee with the decorators w around it
Cost(w) ==
  IF w = <<>> THEN SimpleCost
  ELSE LET inner == Cost(SubSeq(w, 1, Len(w) - 1))
       IN IF w[Len(w)] = "MilkDecorator" THEN MilkCost(inner)
          ELSE SugarCost(inner)

RECURSIVE Description(_)
\* coffee.description() of the coffee with the decorators w around it
Description(w) ==
  IF w = <<>> THEN SimpleDescription
  ELSE LET inner == Description(SubSeq(w, 1, Len(w) - 1))
       IN IF w[Len(w)] = "MilkDecorator" THEN MilkDescription(inner)
          ELSE SugarDescription(inner)

\* coffee = new MilkDecorator(coffee)
WrapMilk ==
  /\ Len(coffee.wraps) < MaxWraps
  /\ coffee' = [coffee EXCEPT !.wraps = Append(@, "MilkDecorator")]

\* coffee = new SugarDecorator(coffee)
WrapSugar ==
  /\ Len(coffee.wraps) < MaxWraps
  /\ coffee' = [coffee EXCEPT !.wraps = Append(@, "SugarDecorator")]

\* console.log(coffee.description(), "₹" + coffee.cost())
CoffeeLog ==
  /\ coffee' = [coffee EXCEPT !.line = [description |-> Description(coffee.wraps),
                                        cost |-> Cost(coffee.wraps)]]

CoffeeNext ==
  \/ WrapMilk /\ UNCHANGED exceptCoffee
  \/ WrapSugar /\ UNCHANGED exceptCoffee
  \/ CoffeeLog /\ UNCHANGED exceptCoffee

SpecCoffee == Init /\ [][CoffeeNext]_vars

\* ---------------------------------------------------------- the order facade
\* facade.log lists what placeOrder and the services have done, one entry per
\* console line; ok is what a service returned (TRUE for a line that is not a
\* service call with a result)
Done(step, product, user, amount, ok) ==
  [step |-> step, product |-> product, user |-> user, amount |-> amount,
   ok |-> ok]

\* const amount = 499
Amount == 499

\* InventoryService.checkStock returns true
CheckStock(productId) == TRUE

\* PaymentService.processPayment returns true
ProcessPayment(userId, amount) == TRUE

\* orderFacade.placeOrder(productId, userId) is called
PlaceOrder(productId, userId) ==
  /\ facade.pc = "idle"
  /\ facade.orders < MaxOrders
  /\ facade' = [facade EXCEPT !.pc = "start", !.product = productId,
                              !.user = userId, !.before = Len(facade.log),
                              !.orders = @ + 1]

\* console.log("Starting order placement process...")
OrderStart ==
  /\ facade.pc = "start"
  /\ facade' = [facade EXCEPT !.pc = "stock",
       !.log = Append(@, Done("start", "", "", 0, TRUE))]

\* a stock check whose result is not looked at
StockStepIgnored(ok) ==
  /\ facade.pc = "stock"
  /\ facade' = [facade EXCEPT !.pc = "payment",
       !.log = Append(@, Done("checkStock", facade.product, "", 0, ok))]

\* if (!this.inventory.checkStock(productId)) { log; return }: ok is what the
\* service returns
StockStep(ok) ==
  /\ facade.pc = "stock"
  /\ LET checked == Append(facade.log,
                           Done("checkStock", facade.product, "", 0, ok))
     IN facade' =
          IF ~ok
          THEN [facade EXCEPT !.pc = "return",
                 !.log = Append(checked, Done("outOfStock", "", "", 0, TRUE))]
          ELSE [facade EXCEPT !.pc = "payment", !.log = checked]

\* if (!this.payment.processPayment(userId, amount)) { log; return }
PaymentStep(ok) ==
  /\ facade.pc = "payment"
  /\ LET paid == Append(facade.log,
                        Done("processPayment", "", facade.user, Amount, ok))
     IN facade' =
          IF ~ok
          THEN [facade EXCEPT !.pc = "return",
                 !.log = Append(paid, Done("paymentFailed", "", "", 0, TRUE))]
          ELSE [facade EXCEPT !.pc = "invoice", !.log = paid]

\* an invoice step that sends the email first
InvoiceStepLate ==
  /\ facade.pc = "invoice"
  /\ facade' = [facade EXCEPT !.pc = "success",
       !.log = @ \o <<Done("sendConfirmationEmail", "", facade.user, 0, TRUE),
                      Done("generateInvoice", facade.product, facade.user, 0,
                           TRUE)>>]

\* this.invoice.generateInvoice(productId, userId)
InvoiceStep ==
  /\ facade.pc = "invoice"
  /\ facade' = [facade EXCEPT !.pc = "email",
       !.log = Append(@, Done("generateInvoice", facade.product, facade.user,
                              0, TRUE))]

\* this.notification.sendConfirmationEmail(userId)
EmailStep ==
  /\ facade.pc = "email"
  /\ facade' = [facade EXCEPT !.pc = "success",
       !.log = Append(@, Done("sendConfirmationEmail", "", facade.user, 0,
                              TRUE))]

\* console.log("Order placed successfully!")
OrderSuccess ==
  /\ facade.pc = "success"
  /\ facade' = [facade EXCEPT !.pc = "return",
       !.log = Append(@, Done("success", "", "", 0, TRUE))]

\* placeOrder returns
OrderReturn ==
  /\ facade.pc = "return"
  /\ facade' = [facade EXCEPT !.pc = "idle"]

\* the steps that call no service with a result
OrderSteps ==
  \/ \E productId \in ProductIds, userId \in UserIds :
       PlaceOrder(productId, userId) /\ UNCHANGED exceptFacade
  \/ OrderStart /\ UNCHANGED exceptFacade
  \/ InvoiceStep /\ UNCHANGED exceptFacade
  \/ EmailStep /\ UNCHANGED exceptFacade
  \/ OrderSuccess /\ UNCHANGED exceptFacade
  \/ OrderReturn /\ UNCHANGED exceptFacade

\* the facade with the services of the repository
FacadeNext ==
  \/ OrderSteps
  \/ StockStep(CheckStock(facade.product)) /\ UNCHANGED exceptFacade
  \/ PaymentStep(ProcessPayment(facade.user, Amount)) /\ UNCHANGED exceptFacade

SpecFacade == Init /\ [][FacadeNext]_vars

\* the facade with services that return either value of their declared
\* result type boolean
FacadeAnyNext ==
  \/ OrderSteps
  \/ \E ok \in BOOLEAN : StockStep(ok) /\ UNCHANGED exceptFacade
  \/ \E ok \in BOOLEAN : PaymentStep(ok) /\ UNCHANGED exceptFacade

SpecFacadeAny == Init /\ [][FacadeAnyNext]_vars

\* ------------------------------------------------------------- properties
Frames == {stack[i] : i \in 1 .. Len(stack)}

Count(h, s) == Cardinality({i \in 1 .. Len(s) : s[i] = h})

IsPrefix(p, s) == Len(p) <= Len(s) /\ p = SubSeq(s, 1, Len(p))

\* videoUpload is about to return
Returning(f) == f.pc = "map" /\ Finished(f)

\* C1: in every publish the i-th update goes to the i-th entry of the
\* subscriber sequence: of two entries of the sequence, the one added earlier
\* (at the smaller index) is notified strictly before the other.
C1_NotifiedInInsertionOrder ==
  \A f \in Frames :
    \A i, j \in 1 .. Len(f.notified) :
      i < j => /\ j <= Len(f.start)
               /\ f.notified[i] = f.start[i]
               /\ f.notified[j] = f.start[j]

C1_Witness ==
  \E f \in Frames :
    /\ Returning(f)
    /\ Len(f.start) = 3
    /\ f.start[1] # f.start[2]
    /\ f.notified = f.start

\* C2: right after removeSubscriber(h) the channel's sequence holds no
\* occurrence of h, however often h occurred before.
C2_RemovesEveryOccurrence ==
  lastCall.op = "removeSubscriber" =>
    lastCall.sub \notin Range(Subs(lastCall.ch))

C2_Witness ==
  /\ lastCall.op = "removeSubscriber"
  /\ Count(lastCall.sub, lastCall.pre) >= 2
  /\ Subs(lastCall.ch) # <<>>
  /\ lastCall.sub \notin Range(Subs(lastCall.ch))

\* C3: a publish called right after removeSubscriber(h) on the same channel
\* never calls update on h.
C3_RemovedNotNotified ==
  \A f \in Frames :
    (f.after.op = "removeSubscriber" /\ f.after.ch = f.ch)
      => f.after.sub \notin Range(f.notified)

C3_Witness ==
  \E f \in Frames :
    /\ Returning(f)
    /\ f.after.op = "removeSubscriber"
    /\ f.after.ch = f.ch
    /\ Count(f.after.sub, f.after.pre) >= 2
    /\ f.notified # <<>>

\* C4: a publish notifies exactly the entries of the sequence as it was when
\* publish was called, whatever the update callbacks add or remove meanwhile:
\* what has been notified is always the first entries of that sequence, one
\* per iteration, and all of it when videoUpload returns.
C4_BroadcastUsesStartingSequence ==
  \A f \in Frames :
    /\ Len(f.notified) = f.k + (IF f.pc = "update" THEN 1 ELSE 0)
    /\ IsPrefix(f.notified, f.start)
    /\ Returning(f) => f.notified = f.start

\* an entry was pushed onto the array during the broadcast and is not
\* notified; the entry visited last had been removed before its visit and
\* was notified all the same
C4_Witness ==
  \E f \in Frames :
    /\ Returning(f)
    /\ f.gone
    /\ Len(heap[f.O]) > f.len
    /\ f.notified = f.start

\* C5: a publish makes as many update calls as the sequence had entries when
\* it was called, and calls a handle as often as it is registered.
C5_OneUpdatePerEntry ==
  \A f \in Frames :
    Returning(f) =>
      /\ Len(f.notified) = Len(f.start)
      /\ \A h \in Subscribers : Count(h, f.notified) = Count(h, f.start)

C5_Witness ==
  \E f \in Frames :
    /\ Returning(f)
    /\ f.after.op \in {"addSubscriber", "removeSubscriber"}
    /\ Len(f.start) = 3
    /\ \E h \in Subscribers : Count(h, f.start) = 2 /\ Count(h, f.notified) = 2

\* C6: right after addSubscriber(h) the sequence is the sequence before the
\* call with h appended, also when h was registered already.
C6_AddAppends ==
  lastCall.op = "addSubscriber" =>
    Subs(lastCall.ch) = Append(lastCall.pre, lastCall.sub)

C6_Witness ==
  /\ lastCall.op = "addSubscriber"
  /\ lastCall.sub \in Range(lastCall.pre)
  /\ Len(lastCall.pre) >= 2
  /\ Len(Subs(lastCall.ch)) = Len(lastCall.pre) + 1

\* C7: removeSubscriber(h) of a handle that is not registered leaves the
\* sequence as it was and raises nothing, and a publish called next notifies
\* the entries of that sequence, in its order.
C7_RemoveAbsentChangesNothing ==
  /\ (lastCall.op = "removeSubscriber" /\ lastCall.sub \notin Range(lastCall.pre))
       => (Subs(lastCall.ch) = lastCall.pre /\ ~err)
  /\ \A f \in Frames :
       (/\ f.after.op = "removeSubscriber"
        /\ f.after.ch = f.ch
        /\ f.after.sub \notin Range(f.after.pre))
         => /\ f.start = f.after.pre
            /\ IsPrefix(f.notified, f.after.pre)
            /\ Returning(f) => f.notified = f.after.pre

C7_Witness ==
  \E f \in Frames :
    /\ Returning(f)
    /\ f.after.op = "removeSubscriber"
    /\ f.after.ch = f.ch
    /\ f.after.sub \notin Range(f.after.pre)
    /\ Len(f.after.pre) >= 2
    /\ f.notified = f.after.pre

\* C8: only addSubscriber and removeSubscriber steps change a channel's
\* sequence; videoUpload returns only after it has notified every entry, and
\* as long as no callback has called the channel the sequence is the one
\* videoUpload was called with.
C8_PublishLeavesSequence ==
  [][/\ \/ \E c \in DOMAIN subscriber, s \in Subscribers :
             AddSubscriber(c, s) \/ RemoveSubscriber(c, s)
        \/ \A c \in DOMAIN subscriber : Subs(c)' = Subs(c)
     /\ (stack # <<>> /\ stack' = <<>> /\ ~err')
          => stack[1].notified = stack[1].start
     /\ (stack' # <<>> /\ lastCall'.op = "videoUpload")
          => heap'[subscriber'[stack'[1].ch]] = stack'[1].start
    ]_vars

C8_Witness ==
  /\ stack = <<>>
  /\ lastCall.op = "videoUpload"
  /\ Len(lastCall.pre) >= 2
  /\ Subs(lastCall.ch) = lastCall.pre

\* C9: no channel's sequence ever holds a null entry (the handles passed to
\* addSubscriber being Subscriber objects).
C9_NoNullEntry ==
  \A c \in DOMAIN subscriber : Null \notin Range(Subs(c))

C9_Witness ==
  /\ lastCall.op = "removeSubscriber"
  /\ lastCall.sub \in Range(lastCall.pre)
  /\ Subs(lastCall.ch) # <<>>
  /\ Subs(lastCall.ch) # lastCall.pre

\* what is left to do of a running map
Measure(f) == 2 * (f.len - f.k) + (IF f.pc = "map" THEN 1 ELSE 0)

\* C10: no step of addSubscriber, removeSubscriber or videoUpload raises an
\* error, and videoUpload comes to its end: every step of its map brings it
\* nearer to its return and no call of a callback takes it further away.
C10_OperationsTotal ==
  [][/\ ~err'
     /\ (stack # <<>> /\ stack' # <<>>)
          => /\ Measure(stack'[1]) <= Measure(stack[1])
             /\ Measure(stack'[1]) >= 1
             /\ stack'[1].notified # stack[1].notified
                  => Measure(stack'[1]) < Measure(stack[1])
             /\ stack'[1].k # stack[1].k
                  => Measure(stack'[1]) < Measure(stack[1])
    ]_vars

C10_Witness ==
  \E f \in Frames :
    /\ Returning(f)
    /\ f.after.op = "removeSubscriber"
    /\ lastCall.op = "addSubscriber"
    /\ Len(f.notified) >= 2
    /\ ~err

\* C11: what a publish has printed is one announcement line with the name of
\* the channel and the title, followed by one line for every update it has
\* called, each with the name of the subscriber and the title given to
\* videoUpload.
C11_AnnouncementThenNotifications ==
  \A f \in Frames :
    /\ Len(f.out) = 1 + Len(f.notified)
    /\ f.out[1] = [who |-> ChannelName[f.ch], what |-> "uploaded",
                   title |-> f.title]
    /\ \A i \in 1 .. Len(f.notified) :
         f.out[i + 1] = [who |-> f.notified[i], what |-> "got notified",
                         title |-> f.title]

C11_Witness ==
  \E f \in Frames :
    /\ Returning(f)
    /\ f.title = "Angular"
    /\ Len(f.out) = 3
    /\ f.out[2].who # f.out[3].who
    /\ f.out[3].title = "Angular"

\* C12: a publish on a channel without subscribers calls no update and
\* prints the announcement line, and nothing else.
C12_EmptyPublishAnnounces ==
  \A f \in Frames :
    f.start = <<>> =>
      /\ f.notified = <<>>
      /\ f.pc = "map"
      /\ f.out = <<[who |-> ChannelName[f.ch], what |-> "uploaded",
                    title |-> f.title]>>

C12_Witness ==
  \E f \in Frames :
    /\ Returning(f)
    /\ f.start = <<>>
    /\ f.after.op = "removeSubscriber"
    /\ f.after.pre # <<>>
    /\ Len(f.out) = 1

\* C13: in the run of the demo script the publish of "ReactJs", called after
\* A, B and C were added, calls update three times, on A, B, C in this order,
\* and the publish of "Angular", called after B was removed, calls it twice,
\* on A then C.
C13_DemoScenario ==
  \A f \in Frames :
    (script.on /\ Returning(f)) =>
      /\ script.at = 4 => (f.title = "ReactJs" /\ f.notified = <<"A", "B", "C">>)
      /\ script.at = 6 => (f.title = "Angular" /\ f.notified = <<"A", "C">>)

C13_Witness ==
  \E f \in Frames :
    /\ script = [on |-> TRUE, at |-> 6]
    /\ Returning(f)
    /\ f.ch = "YtChannel1"
    /\ ChannelName[f.ch] = "codeWithMe"
    /\ Len(f.notified) = 2
    /\ f.after.pre = <<"A", "B", "C">>

\* every reference a getInstance call has returned
Returned == UNION {single.got[t] : t \in Callers}

\* C14: whatever calls of getInstance the script has made, one after the
\* other, at most one SingletonClass object has been constructed and every
\* call has returned that object.
C14_OneInstance ==
  /\ Cardinality(single.created) <= 1
  /\ Returned \subseteq single.created
  /\ \A t, u \in Callers : \A x \in single.got[t], y \in single.got[u] : x = y
  /\ single.said # "All instance are not same"

C14_Witness ==
  /\ Cardinality(single.created) = 1
  /\ \A t \in Callers : single.got[t] = single.created
  /\ \E t \in Callers : single.pc[t] = "return"
  /\ single.said = "All instance are same"

\* C15: threads that call the basic getInstance at the same time never
\* construct more than one instance.
C15_ThreadSafeCreation ==
  Cardinality(single.created) <= 1

\* C16: with the synchronized getInstance, however the threads interleave,
\* at most one instance is constructed, at most one thread is inside
\* getInstance, and every call returns the one instance.
C16_SynchronizedOneInstance ==
  /\ Cardinality(single.created) <= 1
  /\ Cardinality({t \in Callers : single.pc[t] \notin {"idle", "wait"}}) <= 1
  /\ \A t \in Callers : single.pc[t] \notin {"idle", "wait"} => single.lock = t
  /\ \A t \in Callers : single.got[t] \subseteq single.created

C16_Witness ==
  /\ single.lock # NoCaller
  /\ single.pc[single.lock] = "check"
  /\ single.instance # NoObject
  /\ single.instance.by # single.lock
  /\ \E t \in Callers : single.pc[t] = "wait"
  /\ \E t \in Callers : single.got[t] = {single.instance}

\* is str the word w (three lower-case letters) in some mix of cases
CaseVariant(str, w) ==
  /\ Len(str) = 3
  /\ \A i \in 1 .. 3 :
       \/ str[i] = w[i]
       \/ <<str[i], w[i]>> \in {<<"D", "d">>, <<"O", "o">>, <<"G", "g">>,
                                <<"C", "c">>, <<"A", "a">>, <<"T", "t">>}

\* C17: getAnimal returns a Dog for every case variant of "dog", a Cat for
\* every case variant of "cat" and null for every other string, and no two
\* calls return the same object.
C17_FactoryDispatch ==
  /\ \A i \in 1 .. Len(factory.done) :
       LET d == factory.done[i]
       IN d.result.class =
            IF CaseVariant(d.arg, <<"d", "o", "g">>) THEN "Dog"
            ELSE IF CaseVariant(d.arg, <<"c", "a", "t">>) THEN "Cat"
            ELSE "null"
  /\ \A i, j \in 1 .. Len(factory.done) :
       (i # j /\ factory.done[i].result # NoAnimal)
         => factory.done[i].result # factory.done[j].result

C17_Witness ==
  /\ Len(factory.done) = 2
  /\ factory.done[1].arg = <<"d", "O", "G">>
  /\ factory.done[2].arg = <<"D", "o", "g">>
  /\ factory.done[1].result.class = "Dog"
  /\ factory.done[2].result.class = "Dog"

\* what the running call of play has printed
Printed == SubSeq(player.console, player.before + 1, Len(player.console))

\* C18: when play is through, it has printed the one line "Playing mp3 file"
\* for "mp3", without an adapter; for "vlc" and "mp4" the one line "Playing
\* <type> file" of that type, through a MediaAdapter; and for any other type
\* the invalid-format message and nothing else.  It never throws.
C18_PlayDispatch ==
  /\ player.error = ""
  /\ player.pc = "done" =>
       IF player.type = "mp3"
       THEN /\ Printed = <<[text |-> "Playing", type |-> "mp3",
                            file |-> player.file]>>
            /\ player.advanced = NoPlayer
       ELSE IF player.type \in {"vlc", "mp4"}
       THEN /\ Printed = <<[text |-> "Playing", type |-> player.type,
                            file |-> player.file]>>
            /\ player.advanced # NoPlayer
       ELSE /\ Len(Printed) = 1
            /\ Printed[1].text # "Playing"
            /\ player.advanced = NoPlayer

C18_Witness ==
  /\ player.pc = "done"
  /\ player.type = "vlc"
  /\ player.advanced = "VlcPlayer"
  /\ player.before = 1
  /\ player.console[1].text # "Playing"
  /\ player.console[2] = [text |-> "Playing", type |-> "vlc",
                          file |-> "movie.vlc"]

\* the pay calls of the contexts that have reached the payment object
Delegated ==
  IF strategy.pc = "pay" THEN Len(strategy.calls) - 1
  ELSE Len(strategy.calls)

\* C19: the k-th pay call of a context is the k-th pay invocation on a payment
\* object, and there are no others; it is made on the object the context's
\* constructor was given, with the amount of the call; the object a context
\* holds is always the one its constructor was given.
C19_StrategyDelegates ==
  /\ Len(strategy.paid) = Delegated
  /\ \A k \in 1 .. Delegated :
       /\ strategy.paid[k].on = strategy.news[strategy.calls[k].ctx]
       /\ strategy.paid[k].amount = strategy.calls[k].amount
  /\ \A i \in DOMAIN strategy.contexts :
       strategy.contexts[i].instanct = strategy.news[i]

C19_Witness ==
  /\ strategy.pc = "idle"
  /\ Len(strategy.contexts) = 2
  /\ strategy.news[1].class = "CreditCard"
  /\ strategy.news[2].class = "Upi"
  /\ strategy.calls = <<[ctx |-> 2, amount |-> 200], [ctx |-> 2, amount |-> 100]>>
  /\ strategy.paid = <<[on |-> strategy.news[2], amount |-> 200],
                       [on |-> strategy.news[2], amount |-> 100]>>

\* the coffee inside the outermost decorator
Wrapped == SubSeq(coffee.wraps, 1, Len(coffee.wraps) - 1)

\* C20: the SimpleCoffee costs 50; a coffee whose outermost decorator is a
\* MilkDecorator costs 20 more than the coffee it wraps, and one whose
\* outermost decorator is a SugarDecorator costs 10 more.
C20_DecoratorCosts ==
  IF coffee.wraps = <<>> THEN Cost(coffee.wraps) = 50
  ELSE IF coffee.wraps[Len(coffee.wraps)] = "MilkDecorator"
  THEN Cost(coffee.wraps) = Cost(Wrapped) + 20
  ELSE Cost(coffee.wraps) = Cost(Wrapped) + 10

\* the indices of the entries of arr that are not h
KeptIndices(arr, h) == {i \in 1 .. Len(arr) : arr[i] # h}

\* the j-th smallest of a set of indices
Nth(S, j) == CHOOSE i \in S : Cardinality({k \in S : k <= i}) = j

\* C21: right after removeSubscriber(h) the channel's sequence is the old
\* sequence with the occurrences of h deleted: it has one entry for every old
\* entry that is not h, and its j-th entry is the j-th of those, so that the
\* remaining entries keep their order and their multiplicity.
C21_RemoveKeepsOrderAndCount ==
  lastCall.op = "removeSubscriber" =>
    LET kept == KeptIndices(lastCall.pre, lastCall.sub)
        now == Subs(lastCall.ch)
    IN /\ Len(now) = Cardinality(kept)
       /\ \A j \in 1 .. Len(now) : now[j] = lastCall.pre[Nth(kept, j)]
       /\ \A x \in Range(lastCall.pre) \ {lastCall.sub} :
            Count(x, now) = Count(x, lastCall.pre)

C21_Witness ==
  /\ lastCall.op = "removeSubscriber"
  /\ lastCall.sub = "A"
  /\ lastCall.pre = <<"C", "A", "B">>
  /\ Subs(lastCall.ch) = <<"C", "B">>

\* C22: a step changes the sequence of a channel only if it is an
\* addSubscriber or removeSubscriber call on that very channel, so that no
\* operation on one channel changes the sequence of another; and a videoUpload
\* notifies only subscribers that were registered with its own channel when
\* it was called, even when a subscriber object is registered with both.
C22_ChannelsIndependent ==
  [][/\ \A d \in DOMAIN subscriber :
          heap'[subscriber'[d]] # heap[subscriber[d]]
            => /\ lastCall' # lastCall
               /\ lastCall'.ch = d
               /\ lastCall'.op \in {"addSubscriber", "removeSubscriber"}
     /\ \A i \in 1 .. Len(stack') :
          Range(stack'[i].notified) \subseteq Range(stack'[i].start)]_vars

C22_Witness ==
  /\ DOMAIN subscriber = {"YtChannel1", "YtChannel2"}
  /\ Subs("YtChannel1") = <<"A", "B">>
  /\ Subs("YtChannel2") = <<"A">>
  /\ lastCall.op = "videoUpload"
  /\ lastCall.ch = "YtChannel2"
  /\ \E f \in Frames : Returning(f) /\ f.ch = "YtChannel2" /\ f.notified = <<"A">>

\* what the running placeOrder call has done so far
OrderLog == SubSeq(facade.log, facade.before + 1, Len(facade.log))

\* the steps of an order that succeeds
SuccessfulOrder ==
  <<"start", "checkStock", "processPayment", "generateInvoice",
    "sendConfirmationEmail", "success">>

\* C23: what a placeOrder call has done is always the first steps of: start,
\* stock check, payment, invoice, email, success message, each once and with
\* the call's product and user; and when the call returns after the success
\* message it has done all six.
C23_OrderSteps ==
  /\ Len(OrderLog) <= Len(SuccessfulOrder)
  /\ \A i \in 1 .. Len(OrderLog) :
       /\ OrderLog[i].step = SuccessfulOrder[i]
       /\ OrderLog[i].product \in {"", facade.product}
       /\ OrderLog[i].user \in {"", facade.user}
  /\ facade.pc = "return" => Len(OrderLog) = Len(SuccessfulOrder)

C23_Witness ==
  /\ facade.pc = "return"
  /\ facade.orders = 2
  /\ facade.product = "Product123"
  /\ facade.user = "UserABC"
  /\ Len(OrderLog) = 6
  /\ OrderLog[4] = [step |-> "generateInvoice", product |-> "Product123",
                    user |-> "UserABC", amount |-> 0, ok |-> TRUE]
  /\ OrderLog[6].step = "success"

\* the positions of the running call's log with the given step
StepsAt(step) == {i \in 1 .. Len(OrderLog) : OrderLog[i].step = step}

\* the positions at which a service returned false
Failed(step) == {i \in StepsAt(step) : ~OrderLog[i].ok}

\* C24: once checkStock has returned false the call processes no payment;
\* once checkStock or processPayment has returned false it generates no
\* invoice, sends no email and prints no success message; an invoice or email
\* is preceded by a payment that returned true.
C24_StopsAtFirstFailure ==
  /\ Failed("checkStock") # {} => StepsAt("processPayment") = {}
  /\ (Failed("checkStock") # {} \/ Failed("processPayment") # {})
       => /\ StepsAt("generateInvoice") = {}
          /\ StepsAt("sendConfirmationEmail") = {}
          /\ StepsAt("success") = {}
          /\ facade.pc \in {"return", "idle"}
  /\ \A i \in StepsAt("generateInvoice") \cup StepsAt("sendConfirmationEmail") :
       \E j \in StepsAt("processPayment") : j < i /\ OrderLog[j].ok

C24_Witness ==
  /\ facade.pc = "idle"
  /\ facade.orders = 2
  /\ Len(facade.log) = 7
  /\ facade.log[2].step = "checkStock"
  /\ ~facade.log[2].ok
  /\ facade.log[3].step = "outOfStock"
  /\ facade.log[6].step = "processPayment"
  /\ ~facade.log[6].ok
  /\ facade.log[7].step = "paymentFailed"

\* C25: once new MediaAdapter(audioType) is through, it has thrown
\* "Unsupported format" and made no adapter if audioType is neither "vlc" nor
\* "mp4", and it has made an adapter with a player and thrown nothing if
\* audioType is one of the two.
C25_AdapterConstruction ==
  /\ player.pc \in {"thrown", "adapter"}
       => IF player.type \in {"vlc", "mp4"}
          THEN /\ player.pc = "adapter"
               /\ player.advanced # NoPlayer
               /\ player.error = ""
          ELSE /\ player.pc = "thrown"
               /\ player.advanced = NoPlayer
               /\ player.error = "Unsupported format"
  /\ player.error # "" => player.pc = "thrown"

C25_Witness ==
  /\ player.pc = "thrown"
  /\ player.type = "mp3"
  /\ player.error = "Unsupported format"
  /\ player.plays = 2
  /\ player.console = <<[text |-> "Playing", type |-> "mp4",
                         file |-> "video.mp4"]>>

\* C26: AudioPlayer.play never throws: it constructs a MediaAdapter only for
\* "vlc" and "mp4", for which the constructor does not throw.
C26_PlayNeverThrows ==
  /\ player.pc # "thrown"
  /\ player.error = ""
  /\ player.pc \in {"new", "adapter"} => player.type \in {"vlc", "mp4"}

C26_Witness ==
  /\ player.pc = "done"
  /\ player.type = "avi"
  /\ player.plays = 2
  /\ Len(player.console) = 2
  /\ player.console[1] = [text |-> "Playing", type |-> "mp4",
                          file |-> "video.mp4"]
  /\ player.console[2].text # "Playing"

====
